---- MODULE Spec2Model ----
(***************************************************************************)
(* Model of the ERP tracker's ingestion pipeline (src/dataUtils.ts,        *)
(* fetchAndProcessData), of the table it resolves with, and of the         *)
(* component that calls it and holds its result (src/App.tsx, App).        *)
(*                                                                         *)
(* Text is modelled by TLA+ strings, read character by character with      *)
(* SubSeq, so that normalisation, substring search and date parsing are    *)
(* computed the way the code computes them.  A value that JavaScript may   *)
(* leave undefined or null is a sequence of length at most one: << >> is   *)
(* undefined/null and <<v>> is the value v.                                *)
(***************************************************************************)
EXTENDS Integers, Sequences, FiniteSets, TLC

VARIABLES
  pc,               \* "pending", "resolved" or "rejected": the promise of fetchAndProcessData
  rejection,        \* the error the promise rejected with, << >> when none
  headers,          \* results.meta.fields handed to the complete callback
  data,             \* results.data: one sequence of cell texts per row, in header order
  now,              \* the clock read by the run
  descKey,          \* the local descKey, << >> before it is assigned
  statusKey,        \* the local statusKey
  dateKey,          \* the local dateKey, << >> when undefined
  tasks,            \* DashboardData.tasks
  departmentStats,  \* DashboardData.departmentStats
  overallProgress,  \* DashboardData.overallProgress
  appData,          \* App's state data: << >> is null, <<d>> the DashboardData d
  loading,          \* App's state loading
  error,            \* App's state error: << >> is null, <<m>> the message m
  mounted,          \* whether the mount effect of App has run
  loads,            \* the invocations of loadData, in the order they started
  settled           \* the invocations whose await has returned or thrown, in that order

pipelineVars == <<pc, rejection, headers, data, now, descKey, statusKey, dateKey, tasks,
                  departmentStats, overallProgress>>

appVars == <<appData, loading, error, mounted, loads, settled>>

vars == <<pipelineVars, appVars>>

-----------------------------------------------------------------------------
(* Strings *)

Undefined == << >>

Some(v) == <<v>>

UpperChars == "ABCDEFGHIJKLMNOPQRSTUVWXYZ"

LowerChars == "abcdefghijklmnopqrstuvwxyz"

DigitChars == "0123456789"

\* the character of s at position i (from 1), "" outside the string
CharAt(s, i) == IF i >= 1 /\ i <= Len(s) THEN SubSeq(s, i, i) ELSE ""

CharsOf(s) == { CharAt(s, i) : i \in 1..Len(s) }

\* position of the one-character string c in the string s, 0 when absent
IndexOfChar(s, c) ==
  IF \E i \in 1..Len(s) : CharAt(s, i) = c
  THEN CHOOSE i \in 1..Len(s) : CharAt(s, i) = c /\ \A j \in 1..(i-1) : CharAt(s, j) # c
  ELSE 0

\* the lower-case letter of each upper-case letter
lowerOf == [c \in CharsOf(UpperChars) |-> CharAt(LowerChars, IndexOfChar(UpperChars, c))]

LowerChar(c) == IF c \in DOMAIN lowerOf THEN lowerOf[c] ELSE c

RECURSIVE toLowerCase(_)
toLowerCase(s) ==
  IF Len(s) = 0 THEN ""
  ELSE LowerChar(CharAt(s, 1)) \o toLowerCase(SubSeq(s, 2, Len(s)))

\* String.prototype.includes
includes(s, w) ==
  \E i \in 1..(Len(s) - Len(w) + 1) : SubSeq(s, i, i + Len(w) - 1) = w

IsSpace(c) == c = " "

RECURSIVE trimStart(_)
trimStart(s) ==
  IF Len(s) > 0 /\ IsSpace(CharAt(s, 1)) THEN trimStart(SubSeq(s, 2, Len(s))) ELSE s

RECURSIVE trimEnd(_)
trimEnd(s) ==
  IF Len(s) > 0 /\ IsSpace(CharAt(s, Len(s))) THEN trimEnd(SubSeq(s, 1, Len(s) - 1)) ELSE s

trim(s) == trimEnd(trimStart(s))

-----------------------------------------------------------------------------
(* Department classification *)

DeptOrder ==
  << "HR & Payroll", "Finance", "Procurement", "Inventory & Stores",
     "Equipment & Workshop", "Projects & Sales", "Setup & Admin" >>

KEYWORDS ==
  << <<"employee", "payroll", "leave", "salary", "wps", "recruit", "candidate", "personnel", "hr">>,
     <<"finance", "account", "payment", "voucher", "ledger", "asset", "bank", "tax", "p&l", "balance", "audit">>,
     <<"purchase", "supplier", "lpo", "quotation", "procurement", "vendor">>,
     <<"stock", "inventory", "material", "store", "warehouse", "item">>,
     <<"equipment", "workshop", "vehicle", "service", "maintenance", "repair", "machinery">>,
     <<"project", "boq", "job", "costing", "estimate", "tender", "sales", "crm", "contract">>,
     <<"srs", "database", "master", "installation", "setup", "admin", "user", "role", "configuration", "meeting", "kickoff">> >>

\* words.some(word => lowerDesc.includes(word))
someWord(words, lowerDesc) == \E k \in 1..Len(words) : includes(lowerDesc, words[k])

\* the last department of the table with a matching keyword, instead of the first
RECURSIVE scanDepartmentsBack(_, _)
scanDepartmentsBack(lowerDesc, i) ==
  IF i < 1 THEN "General"
  ELSE IF someWord(KEYWORDS[i], lowerDesc) THEN DeptOrder[i]
  ELSE scanDepartmentsBack(lowerDesc, i - 1)

scanDepartmentsLastMatch(lowerDesc, i) == scanDepartmentsBack(lowerDesc, Len(DeptOrder))

RECURSIVE scanDepartments(_, _)
scanDepartments(lowerDesc, i) ==
  IF i > Len(DeptOrder) THEN "General"
  ELSE IF someWord(KEYWORDS[i], lowerDesc) THEN DeptOrder[i]
  ELSE scanDepartments(lowerDesc, i + 1)

\* the keywords searched in the description as written, not lower-cased
determineDepartmentCaseSensitive(desc) == scanDepartments(desc, 1)

determineDepartment(desc) == scanDepartments(toLowerCase(desc), 1)

-----------------------------------------------------------------------------
(* Header normalisation *)

AlnumChars == CharsOf(LowerChars) \cup CharsOf(DigitChars)

IsAlnum(c) == c \in AlnumChars

RECURSIVE keepAlnum(_)
keepAlnum(s) ==
  IF Len(s) = 0 THEN ""
  ELSE (IF IsAlnum(CharAt(s, 1)) THEN CharAt(s, 1) ELSE "") \o keepAlnum(SubSeq(s, 2, Len(s)))

\* str.toLowerCase().replace(/[^a-z0-9]/g, '')
normalize(str) == keepAlnum(toLowerCase(str))

\* Column X is index 23 (A=0 ... X=23)
ColX == 23

DescCandidates == <<"Work Breakdown Structure Task Description", "Task Description", "Description", "Task">>

StatusCandidates == <<"Current Status", "Status">>

DateCandidates == <<"EDD at Site", "EDD", "Target Date", "Deadline", "Date">>

-----------------------------------------------------------------------------
(* Calendar.  An instant is a number of minutes since 0001-01-01T00:00 in   *)
(* the local time zone, which the model takes to be UTC.                    *)

MinutesPerDay == 24 * 60

IsLeapYear(y) == (y % 4 = 0 /\ y % 100 # 0) \/ y % 400 = 0

DaysInMonth(y, m) ==
  IF m = 2 THEN (IF IsLeapYear(y) THEN 29 ELSE 28)
  ELSE IF m \in {4, 6, 9, 11} THEN 30 ELSE 31

DaysBeforeYear(y) == 365 * (y - 1) + ((y - 1) \div 4) - ((y - 1) \div 100) + ((y - 1) \div 400)

RECURSIVE DaysBeforeMonth(_, _)
DaysBeforeMonth(y, m) == IF m <= 1 THEN 0 ELSE DaysBeforeMonth(y, m - 1) + DaysInMonth(y, m - 1)

\* the instant of a local date and time; a day beyond the month's end rolls
\* over into the following month, as the Date constructor's arithmetic does
MakeInstant(y, m, d, hh, mm) ==
  (DaysBeforeYear(y) + DaysBeforeMonth(y, m) + d - 1) * MinutesPerDay + hh * 60 + mm

\* Date.prototype.getFullYear
YearOf(t) ==
  LET day == t \div MinutesPerDay
      y0  == ((400 * day) \div 146097) + 1
  IN  CHOOSE y \in {y0 - 1, y0, y0 + 1} : DaysBeforeYear(y) <= day /\ day < DaysBeforeYear(y + 1)

\* date-fns startOfToday(), read at the instant t
startOfDay(t) == t - (t % MinutesPerDay)

-----------------------------------------------------------------------------
(* date-fns parse(dateString, formatString, referenceDate), en-US locale *)

IsDigit(c) == Len(c) = 1 /\ IndexOfChar(DigitChars, c) > 0

DigitValue(c) == IndexOfChar(DigitChars, c) - 1

IsLetter(c) == Len(c) = 1 /\ (IndexOfChar(LowerChars, c) > 0 \/ IndexOfChar(UpperChars, c) > 0)

RECURSIVE NumberOf(_)
NumberOf(s) ==
  IF Len(s) = 0 THEN 0
  ELSE 10 * NumberOf(SubSeq(s, 1, Len(s) - 1)) + DigitValue(CharAt(s, Len(s)))

\* length of the longest run of the character c at the start of s
RECURSIVE RunLength(_, _)
RunLength(s, c) ==
  IF Len(s) > 0 /\ CharAt(s, 1) = c THEN 1 + RunLength(SubSeq(s, 2, Len(s)), c) ELSE 0

\* the format string split into tokens: a run of one letter, or one other character
tokenLength(fmt) == IF IsLetter(CharAt(fmt, 1)) THEN RunLength(fmt, CharAt(fmt, 1)) ELSE 1

RECURSIVE formatTokens(_)
formatTokens(fmt) ==
  IF Len(fmt) = 0 THEN << >>
  ELSE <<SubSeq(fmt, 1, tokenLength(fmt))>> \o formatTokens(SubSeq(fmt, tokenLength(fmt) + 1, Len(fmt)))

\* number of leading digits of s, at most n  (the regular expression ^\d{1,n})
RECURSIVE LeadingDigits(_, _)
LeadingDigits(s, n) ==
  IF n > 0 /\ Len(s) > 0 /\ IsDigit(CharAt(s, 1))
  THEN 1 + LeadingDigits(SubSeq(s, 2, Len(s)), n - 1) ELSE 0

\* numericPatterns.date  ^(3[0-1]|[0-2]?\d)
DatePatternLength(s) ==
  IF CharAt(s, 1) = "3" /\ CharAt(s, 2) \in {"0", "1"} THEN 2
  ELSE IF CharAt(s, 1) \in {"0", "1", "2"} /\ IsDigit(CharAt(s, 2)) THEN 2
  ELSE IF IsDigit(CharAt(s, 1)) THEN 1 ELSE 0

\* numericPatterns.month  ^(1[0-2]|0?\d)
MonthPatternLength(s) ==
  IF CharAt(s, 1) = "1" /\ CharAt(s, 2) \in {"0", "1", "2"} THEN 2
  ELSE IF CharAt(s, 1) = "0" /\ IsDigit(CharAt(s, 2)) THEN 2
  ELSE IF IsDigit(CharAt(s, 1)) THEN 1 ELSE 0

MonthsWide ==
  << "january", "february", "march", "april", "may", "june", "july",
     "august", "september", "october", "november", "december" >>

MonthsAbbreviated ==
  << "jan", "feb", "mar", "apr", "may", "jun", "jul", "aug", "sep", "oct", "nov", "dec" >>

\* narrow month letters with the month each one parses to
MonthsNarrow ==
  << <<"j", 1>>, <<"f", 2>>, <<"m", 3>>, <<"a", 4>>, <<"s", 9>>, <<"o", 10>>, <<"n", 11>>, <<"d", 12>> >>

StartsWithIgnoreCase(s, w) == Len(s) >= Len(w) /\ toLowerCase(SubSeq(s, 1, Len(w))) = w

NoMatch == [ok |-> FALSE, len |-> 0, value |-> 0]

matchNames(s, names) ==
  IF \E m \in 1..Len(names) : StartsWithIgnoreCase(s, names[m])
  THEN LET m == CHOOSE m \in 1..Len(names) : StartsWithIgnoreCase(s, names[m])
       IN  [ok |-> TRUE, len |-> Len(names[m]), value |-> m]
  ELSE NoMatch

matchNarrow(s) ==
  IF \E k \in 1..Len(MonthsNarrow) : StartsWithIgnoreCase(s, MonthsNarrow[k][1])
  THEN LET k == CHOOSE k \in 1..Len(MonthsNarrow) : StartsWithIgnoreCase(s, MonthsNarrow[k][1])
       IN  [ok |-> TRUE, len |-> 1, value |-> MonthsNarrow[k][2]]
  ELSE NoMatch

FirstMatch(a, b) == IF a.ok THEN a ELSE b

matchNumber(s, n) ==
  IF n > 0 THEN [ok |-> TRUE, len |-> n, value |-> NumberOf(SubSeq(s, 1, n))] ELSE NoMatch

\* one parser of date-fns run on the text s: what it consumed and the value read
runParser(token, s) ==
  CASE token = "d"    -> matchNumber(s, DatePatternLength(s))
    [] token = "dd"   -> matchNumber(s, LeadingDigits(s, 2))
    [] token = "M"    -> matchNumber(s, MonthPatternLength(s))
    [] token = "MM"   -> matchNumber(s, LeadingDigits(s, 2))
    [] token = "MMM"  -> FirstMatch(matchNames(s, MonthsAbbreviated), matchNarrow(s))
    [] token = "MMMM" -> FirstMatch(matchNames(s, MonthsWide),
                                    FirstMatch(matchNames(s, MonthsAbbreviated), matchNarrow(s)))
    [] token = "yy"   -> matchNumber(s, LeadingDigits(s, 2))
    [] token = "yyyy" -> matchNumber(s, LeadingDigits(s, 4))
    [] OTHER          -> IF Len(s) >= Len(token) /\ SubSeq(s, 1, Len(token)) = token
                         THEN [ok |-> TRUE, len |-> Len(token), value |-> 0]
                         ELSE NoMatch

\* normalizeTwoDigitYear
normalizeTwoDigitYear(twoDigitYear, currentYear) ==
  IF currentYear <= 50 THEN (IF twoDigitYear = 0 THEN 100 ELSE twoDigitYear)
  ELSE LET rangeEnd == currentYear + 50
           rangeEndCentury == (rangeEnd \div 100) * 100
       IN  twoDigitYear + rangeEndCentury - (IF twoDigitYear >= rangeEnd % 100 THEN 100 ELSE 0)

ParseStart(s) == [ok |-> TRUE, rest |-> s, year |-> 0, twoDigit |-> FALSE, month |-> 0, day |-> 0]

\* the parse state once the parser of tok has read r from the text left
takeToken(tok, st, r, rest) ==
  IF ~r.ok THEN [st EXCEPT !.ok = FALSE]
  ELSE CASE CharAt(tok, 1) = "y" -> [st EXCEPT !.rest = rest, !.year = r.value, !.twoDigit = (tok = "yy")]
         [] CharAt(tok, 1) = "M" -> [st EXCEPT !.rest = rest, !.month = r.value]
         [] CharAt(tok, 1) = "d" -> [st EXCEPT !.rest = rest, !.day = r.value]
         [] OTHER                -> [st EXCEPT !.rest = rest]

runToken(tok, st, r) == takeToken(tok, st, r, SubSeq(st.rest, r.len + 1, Len(st.rest)))

RECURSIVE runTokens(_, _, _)
runTokens(toks, k, st) ==
  IF k > Len(toks) \/ ~st.ok THEN st
  ELSE runTokens(toks, k + 1, runToken(toks[k], st, runParser(toks[k], st.rest)))

\* the date the parsers have read: the year is validated and set first, then
\* the month, then the day against the length of that month
dateOfParsed(st, year) ==
  IF /\ st.ok
     /\ Len(trim(st.rest)) = 0
     /\ (st.twoDigit \/ st.year > 0)
     /\ st.month >= 1 /\ st.month <= 12
     /\ st.day >= 1 /\ st.day <= DaysInMonth(year, st.month)
  THEN Some(MakeInstant(year, st.month, st.day, 0, 0))
  ELSE Undefined

yearOfParsed(st, referenceDate) ==
  IF st.twoDigit THEN normalizeTwoDigitYear(st.year, YearOf(referenceDate)) ELSE st.year

finishParse(st, referenceDate) == dateOfParsed(st, yearOfParsed(st, referenceDate))

\* parse(): << >> is an Invalid Date, <<t>> the instant of local midnight of
\* the date read
parse(dateString, formatString, referenceDate) ==
  finishParse(runTokens(formatTokens(formatString), 1, ParseStart(dateString)), referenceDate)

-----------------------------------------------------------------------------
(* new Date(text).  Only the ECMAScript date-time string format is        *)
(* modelled: YYYY-MM-DD, optionally followed by THH:mm.  What an engine   *)
(* does with a day past the end of its month is implementation-defined:   *)
(* with lenient it rolls over into the next month, otherwise the result   *)
(* is an Invalid Date.  Any other text is an Invalid Date.                *)

AllDigits(s) == \A i \in 1..Len(s) : IsDigit(CharAt(s, i))

jsDate(s, lenient) ==
  LET hasDate == /\ Len(s) \in {10, 16}
                 /\ AllDigits(SubSeq(s, 1, 4)) /\ CharAt(s, 5) = "-"
                 /\ AllDigits(SubSeq(s, 6, 7)) /\ CharAt(s, 8) = "-"
                 /\ AllDigits(SubSeq(s, 9, 10))
      hasTime == /\ Len(s) = 16
                 /\ CharAt(s, 11) = "T"
                 /\ AllDigits(SubSeq(s, 12, 13)) /\ CharAt(s, 14) = ":"
                 /\ AllDigits(SubSeq(s, 15, 16))
      y  == NumberOf(SubSeq(s, 1, 4))
      m  == NumberOf(SubSeq(s, 6, 7))
      d  == NumberOf(SubSeq(s, 9, 10))
      hh == IF hasTime THEN NumberOf(SubSeq(s, 12, 13)) ELSE 0
      mm == IF hasTime THEN NumberOf(SubSeq(s, 15, 16)) ELSE 0
  IN  IF /\ hasDate /\ (Len(s) = 10 \/ hasTime)
         /\ y >= 1 /\ m >= 1 /\ m <= 12 /\ d >= 1 /\ d <= 31
         /\ hh <= 23 /\ mm <= 59
         /\ (lenient \/ d <= DaysInMonth(y, m))
      THEN Some(MakeInstant(y, m, d, hh, mm))
      ELSE Undefined

formats ==
  << "d-MMM-yy", "dd-MMM-yy", "d-MMM-yyyy", "dd-MMM-yyyy",
     "dd/MM/yyyy", "d/M/yyyy", "MM/dd/yyyy", "M/d/yyyy",
     "yyyy-MM-dd",
     "d MMM yyyy", "d MMMM yyyy",
     "MMM d, yyyy" >>

\* the first valid date of the formats from the k-th on, as the loop returns it
RECURSIVE tryFormats(_, _, _)
tryFormats(cleanStr, k, today) ==
  IF k > Len(formats) THEN Undefined
  ELSE IF parse(cleanStr, formats[k], today) # Undefined THEN parse(cleanStr, formats[k], today)
  ELSE tryFormats(cleanStr, k + 1, today)

\* the loop over the formats, then the fallback on new Date
parseClean(cleanStr, parsed, lenient) ==
  IF Len(cleanStr) = 0 THEN Undefined
  ELSE IF parsed # Undefined THEN parsed ELSE jsDate(cleanStr, lenient)

\* parseDate, run at the instant today on an engine that is lenient or not
parseDate(dateStr, today, lenient) ==
  IF Len(dateStr) = 0 THEN Undefined
  ELSE parseClean(trim(dateStr), tryFormats(trim(dateStr), 1, today), lenient)


-----------------------------------------------------------------------------
(* The tables and clocks the runs are given *)

MaxRows == 3

MaxDetailRows == 1

\* header lines of a few columns
NarrowHeaders ==
  { <<"Task", "Status", "EDD">>,
    <<"Current Status", "Target Date", "Task Description">>,
    <<"Task Owner", "Task", "Status Notes", "Status", "Deadline">>,
    <<"Item", "Progress", "When">> }

RECURSIVE fillers(_, _)
fillers(from, to) == IF from > to THEN << >> ELSE <<"F" \o ToString(from)>> \o fillers(from + 1, to)

\* header lines that reach column X or stop one column short of it
WideHeaders ==
  { first \o fillers(4, ColX) \o tail :
      first \in { <<"Task", "Status", "Deadline">>, <<"Task", "Status", "When">>,
                  <<"Task", "Status", "EDD">> },
      tail  \in { << >>, <<"EDD at Site">>, <<"Remarks">>, <<"">>, <<"Remarks", "Notes">> } }

Descriptions ==
  { "", "Tender for new warehouse racks", "Process PAYROLL for project staff", "Sales tender", "Paint the gate" }

Statuses == { "", "Completed", "In Progress", "DONE", "Not done yet" }

DateTexts ==
  { "", "14-Jan-24", "15-Jan-24", "2024-01-15T18:00", " 16-Jan-2024 ", "01/20/2024", "TBD", "2024-02-30" }

Clocks == { MakeInstant(2024, 1, 15, 12, 0), MakeInstant(2024, 1, 16, 0, 0) }

SummaryHeaders == <<"Task", "Status", "EDD">>

\* rows of the table under SummaryHeaders that the aggregates are computed from
SummaryRows ==
  { <<"Process PAYROLL for project staff", s, t>> :
      s \in {"Completed", "In Progress"},
      t \in {"14-Jan-24", "2024-01-15T18:00", " 16-Jan-2024 ", ""} }
  \cup { <<"Sales tender", "In Progress", "14-Jan-24">>,
         <<"Sales tender", "Completed", " 16-Jan-2024 ">> }

\* rows of a narrow table, with every description, status and date text
DetailRows ==
  { <<d, s, "15-Jan-24">> : d \in Descriptions, s \in Statuses }
  \cup { <<"Sales tender", s, t>> : s \in {"", "Completed"}, t \in DateTexts }
  \cup { <<"Sales tender">> }

\* a line of a wide table: three leading cells, blanks, then the cell of
\* column X when the line is long enough to have one; the line may be
\* shorter or longer than the header line
wideRow(d, s, t, x, n) ==
  LET full == <<d, s, t>> \o [i \in 1..(ColX - 3) |-> ""] \o <<x, "">>
  IN  SubSeq(full, 1, n)

WideRows(hs) ==
  { wideRow("Sales tender", "", t, x, n) :
      t \in {"", "14-Jan-24"},
      x \in {"", " 16-Jan-2024 "},
      n \in {3, ColX, ColX + 1, ColX + 2} }

SeqsUpTo(S, n) == UNION { [1..k -> S] : k \in 0..n }

\* the results a run of Papa.parse may hand to complete
ParseResults ==
  { [fields |-> SummaryHeaders, data |-> rows] : rows \in SeqsUpTo(SummaryRows, MaxRows) }
  \cup { [fields |-> hs, data |-> rows] : hs \in NarrowHeaders, rows \in SeqsUpTo(DetailRows, MaxDetailRows) }
  \cup UNION { { [fields |-> hs, data |-> rows] : rows \in SeqsUpTo(WideRows(hs), MaxDetailRows) } : hs \in WideHeaders }

-----------------------------------------------------------------------------
(* Column resolution.  normalize is tabulated once over the header texts    *)
(* and candidate names of the model.                                        *)

HeaderLines == {SummaryHeaders} \cup NarrowHeaders \cup WideHeaders

RangeOf(seq) == { seq[i] : i \in 1..Len(seq) }

HeaderTexts ==
  UNION { RangeOf(hs) : hs \in HeaderLines }
  \cup RangeOf(DescCandidates) \cup RangeOf(StatusCandidates) \cup RangeOf(DateCandidates)

normalizeTable == [h \in HeaderTexts |-> normalize(h)]

\* headers.map(h => ({ original: h, norm: normalize(h) })), the norm alone
normalizedHeaders(hs) == [i \in 1..Len(hs) |-> normalizeTable[hs[i]]]

normMatches(norm, normCandidate) == norm = normCandidate \/ includes(norm, normCandidate)

\* normalizedHeaders.find(...) from position i on: the first header, in
\* header order, whose normal form matches
RECURSIVE findHeader(_, _, _, _)
findHeader(hs, norms, normCandidate, i) ==
  IF i > Len(hs) THEN Undefined
  ELSE IF normMatches(norms[i], normCandidate) THEN Some(hs[i])
  ELSE findHeader(hs, norms, normCandidate, i + 1)

RECURSIVE scanCandidates(_, _, _, _)
scanCandidates(hs, norms, candidates, k) ==
  IF k > Len(candidates) THEN Undefined
  ELSE LET match == findHeader(hs, norms, normalizeTable[candidates[k]], 1)
       IN  IF match # Undefined THEN match ELSE scanCandidates(hs, norms, candidates, k + 1)

findColumnKey(hs, candidates) ==
  IF Len(hs) = 0 THEN Undefined ELSE scanCandidates(hs, normalizedHeaders(hs), candidates, 1)

-----------------------------------------------------------------------------
(* The parsed table.  Papa.parse with header: true turns a line of cells    *)
(* into an object keyed by the headers; a line with fewer cells than there  *)
(* are headers has no property for the missing ones, and the cells of a     *)
(* line beyond the last header are collected into one further property,     *)
(* the list __parsed_extra.  The tables of the model have pairwise distinct *)
(* headers, so Object.values(row) is the line's cells under the headers in  *)
(* order, followed by that list when the line has one.                      *)

\* row[key]
rowGet(hs, row, key) ==
  IF \E i \in 1..Len(row) : i <= Len(hs) /\ hs[i] = key
  THEN Some(row[CHOOSE i \in 1..Len(row) : i <= Len(hs) /\ hs[i] = key])
  ELSE Undefined

\* Object.values(row): the last value of a line longer than the header line
\* is the list of its extra cells
objectValues(hs, row) ==
  IF Len(row) <= Len(hs) THEN row
  ELSE SubSeq(row, 1, Len(hs)) \o << SubSeq(row, Len(hs) + 1, Len(row)) >>

\* whether the i-th of Object.values(row) is the list __parsed_extra, not a text
isParsedExtra(hs, row, i) == Len(row) > Len(hs) /\ i = Len(hs) + 1

\* a || b for a string-or-undefined a: undefined and "" are falsy
orElse(a, b) == IF a # Undefined /\ Len(a[1]) > 0 THEN a[1] ELSE b

\* the property name an optional key is converted to
propertyKey(k) == IF k = Undefined THEN "undefined" ELSE k[1]

\* headers.length > 23 ? headers[23] : undefined
colXHeaderOf(hs) == IF Len(hs) > ColX THEN Some(hs[ColX + 1]) ELSE Undefined

resolveDescKey(hs) == orElse(findColumnKey(hs, DescCandidates), hs[1])

resolveStatusKey(hs) == orElse(findColumnKey(hs, StatusCandidates), "Status")

\* dateKey after the conditional expression and the default that follows it;
\* a header that is the empty string is falsy in both tests
resolveDateKey(hs) ==
  LET colXHeader == colXHeaderOf(hs)
      truthyX    == colXHeader # Undefined /\ Len(colXHeader[1]) > 0
      first      == IF truthyX /\ includes(normalizeTable[colXHeader[1]], "edd")
                    THEN colXHeader
                    ELSE findColumnKey(hs, DateCandidates)
      falsy      == first = Undefined \/ Len(first[1]) = 0
  IN  IF falsy /\ truthyX THEN colXHeader ELSE first

\* dateRaw that falls back on column X only for a row of more than 24 values
dateRawOfLongerRow(hs, row, dKey) ==
  LET rowValues == objectValues(hs, row)
      keyed     == orElse(rowGet(hs, row, propertyKey(dKey)), "")
  IN  IF Len(keyed) = 0 /\ Len(rowValues) > ColX + 1 THEN rowValues[ColX + 1] ELSE keyed

\* dateRaw of one row
dateRawOf(hs, row, dKey) ==
  LET rowValues == objectValues(hs, row)
      keyed     == orElse(rowGet(hs, row, propertyKey(dKey)), "")
  IN  IF Len(keyed) = 0 /\ Len(rowValues) > ColX THEN rowValues[ColX + 1] ELSE keyed

\* whether parseDate(dateRaw) is handed the list __parsed_extra: the list is
\* truthy and has no trim method, so dateStr.trim() throws a TypeError
parseDateThrows(hs, row, dKey) ==
  /\ Len(orElse(rowGet(hs, row, propertyKey(dKey)), "")) = 0
  /\ Len(objectValues(hs, row)) > ColX
  /\ isParsedExtra(hs, row, ColX + 1)

TrimTypeError == "TypeError: dateStr.trim is not a function"

isDoneStatus(statusRaw) ==
  includes(toLowerCase(statusRaw), "done") \/ includes(toLowerCase(statusRaw), "completed")

-----------------------------------------------------------------------------
(* The pure steps of the run, tabulated once over the finitely many texts,  *)
(* header lines and clocks of the model's tables.                           *)

CellTexts == Descriptions \cup Statuses \cup DateTexts \cup {"Untitled Task", "Pending"}

departmentTable == [d \in CellTexts |-> determineDepartment(d)]

doneTable == [st \in CellTexts |-> isDoneStatus(st)]

parsedDateTable ==
  [t \in CellTexts |-> [today \in Clocks |-> [lenient \in BOOLEAN |-> parseDate(t, today, lenient)]]]

keyTable ==
  [hs \in HeaderLines |->
     [descKey |-> resolveDescKey(hs), statusKey |-> resolveStatusKey(hs), dateKey |-> resolveDateKey(hs)]]

\* makeTask keeping the raw status text of a task that is not done
makeTaskRawStatus(hs, row, index, dsKey, stKey, dKey, today, lenient) ==
  LET description == orElse(rowGet(hs, row, dsKey), "Untitled Task")
      statusRaw   == orElse(rowGet(hs, row, stKey), "Pending")
      dateRaw     == dateRawOf(hs, row, dKey)
  IN  [ id          |-> "task-" \o ToString(index),
        description |-> description,
        status      |-> IF doneTable[statusRaw] THEN "Done" ELSE statusRaw,
        date        |-> dateRaw,
        parsedDate  |-> parsedDateTable[dateRaw][today][lenient],
        department  |-> departmentTable[description],
        raw         |-> row ]

\* the callback of results.data.map, index counted from 0
makeTask(hs, row, index, dsKey, stKey, dKey, today, lenient) ==
  LET description == orElse(rowGet(hs, row, dsKey), "Untitled Task")
      statusRaw   == orElse(rowGet(hs, row, stKey), "Pending")
      dateRaw     == dateRawOf(hs, row, dKey)
  IN  [ id          |-> "task-" \o ToString(index),
        description |-> description,
        status      |-> IF doneTable[statusRaw] THEN "Done" ELSE "Pending",
        date        |-> dateRaw,
        parsedDate  |-> parsedDateTable[dateRaw][today][lenient],
        department  |-> departmentTable[description],
        raw         |-> row ]

-----------------------------------------------------------------------------
(* Aggregation *)

allDepts == DeptOrder \o <<"General">>

\* the quotient truncated instead of rounded
truncPercent(completed, total) == (100 * completed) \div total

\* Math.round of the quotient (completed / total) * 100, half rounded up
roundPercent(completed, total) == (200 * completed + total) \div (2 * total)

percentageOf(completed, total) == IF total = 0 THEN 0 ELSE roundPercent(completed, total)

\* isFuture(date): strictly after the clock
isFuture(date, today) == date > today

\* isPast(date): before the clock instead of before the start of today
isPastDate(date, today) == date < today

\* isBefore(date, startOfToday())
isOverdueDate(date, today) == date < startOfDay(today)

\* t inserted into a sequence sorted by compareAsc, after the tasks that do
\* not compare greater (the sort is stable)
RECURSIVE insertAsc(_, _)
insertAsc(t, sorted) ==
  IF Len(sorted) = 0 THEN <<t>>
  ELSE IF sorted[Len(sorted)].parsedDate[1] <= t.parsedDate[1] THEN Append(sorted, t)
  ELSE Append(insertAsc(t, SubSeq(sorted, 1, Len(sorted) - 1)), sorted[Len(sorted)])

RECURSIVE sortAsc(_)
sortAsc(ts) ==
  IF Len(ts) = 0 THEN << >>
  ELSE insertAsc(ts[Len(ts)], sortAsc(SubSeq(ts, 1, Len(ts) - 1)))

\* the future tasks left in row order, without the sort
futureTasksUnsorted(deptTasks, today) ==
  LET Keep(t) == t.status # "Done" /\ t.parsedDate # Undefined /\ isFuture(t.parsedDate[1], today)
  IN  SelectSeq(deptTasks, Keep)

futureTasksOf(deptTasks, today) ==
  LET Keep(t) == t.status # "Done" /\ t.parsedDate # Undefined /\ isFuture(t.parsedDate[1], today)
  IN  sortAsc(SelectSeq(deptTasks, Keep))

\* futureTasks[0]?.parsedDate || null
nextDeadlineOf(deptTasks, today) ==
  IF Len(futureTasksOf(deptTasks, today)) = 0 THEN Undefined
  ELSE futureTasksOf(deptTasks, today)[1].parsedDate

overdueOf(deptTasks, today) ==
  LET Keep(t) == t.status # "Done" /\ t.parsedDate # Undefined /\ isOverdueDate(t.parsedDate[1], today)
  IN  Len(SelectSeq(deptTasks, Keep))

completedOf(ts) ==
  LET Keep(t) == t.status = "Done"
  IN  Len(SelectSeq(ts, Keep))

\* deptMap.get(name) once every task is filed
deptTasksOf(ts, name) ==
  LET Keep(t) == t.department = name
  IN  SelectSeq(ts, Keep)

statsOf(ts, name, today) ==
  LET deptTasks == deptTasksOf(ts, name)
  IN  [ name           |-> name,
        totalTasks     |-> Len(deptTasks),
        completedTasks |-> completedOf(deptTasks),
        percentage     |-> percentageOf(completedOf(deptTasks), Len(deptTasks)),
        nextDeadline   |-> nextDeadlineOf(deptTasks, today),
        overdueCount   |-> overdueOf(deptTasks, today) ]

\* the deptMap.forEach loop from the k-th department on
RECURSIVE pushStats(_, _, _)
pushStats(ts, k, today) ==
  IF k > Len(allDepts) THEN << >>
  ELSE (IF Len(deptTasksOf(ts, allDepts[k])) = 0 /\ allDepts[k] = "General"
        THEN << >> ELSE <<statsOf(ts, allDepts[k], today)>>)
       \o pushStats(ts, k + 1, today)

\* the statistics of every pushed department, empty ones included
allStats(stats) == stats

\* departmentStats.filter(d => d.totalTasks > 0)
RECURSIVE nonEmptyStats(_)
nonEmptyStats(stats) ==
  IF Len(stats) = 0 THEN << >>
  ELSE (IF stats[1].totalTasks > 0 THEN <<stats[1]>> ELSE << >>) \o nonEmptyStats(Tail(stats))


-----------------------------------------------------------------------------
(* fetchAndProcessData *)

Init ==
  /\ pc = "pending"
  /\ rejection = Undefined
  /\ headers = << >>
  /\ data = << >>
  /\ now = 0
  /\ descKey = Undefined
  /\ statusKey = Undefined
  /\ dateKey = Undefined
  /\ tasks = << >>
  /\ departmentStats = << >>
  /\ overallProgress = 0
  /\ appData = Undefined
  /\ loading = TRUE
  /\ error = Undefined
  /\ mounted = FALSE
  /\ loads = << >>
  /\ settled = << >>

\* fetch rejects, or the response is not ok: the error is thrown to the caller
FetchFail ==
  /\ pc = "pending"
  /\ pc' = "rejected"
  /\ \E e \in {"Failed to fetch data", "TypeError"} : rejection' = Some(e)
  /\ UNCHANGED <<headers, data, now, descKey, statusKey, dateKey, tasks, departmentStats, overallProgress>>
  /\ UNCHANGED appVars

\* Papa.parse calls error: the promise is rejected with it
ParseFail ==
  /\ pc = "pending"
  /\ pc' = "rejected"
  /\ rejection' = Some("ParseError")
  /\ UNCHANGED <<headers, data, now, descKey, statusKey, dateKey, tasks, departmentStats, overallProgress>>
  /\ UNCHANGED appVars

\* what the promise settles with: a rejection or a DashboardData
rejectWith(e) == [failure |-> Some(e), value |-> Undefined]

resolveWith(d) == [failure |-> Undefined, value |-> Some(d)]

\* results.data.map(...)
tasksOf(results, today, lenient) ==
  [i \in 1..Len(results.data) |->
     makeTask(results.fields, results.data[i], i - 1, keyTable[results.fields].descKey,
              keyTable[results.fields].statusKey, keyTable[results.fields].dateKey, today, lenient)]

\* the aggregation of the tasks and the value handed to resolve
dashboardOf(ts, today) ==
  [ tasks           |-> ts,
    departmentStats |-> nonEmptyStats(pushStats(ts, 1, today)),
    overallProgress |-> percentageOf(completedOf(ts), Len(ts)) ]

\* the complete callback: what it resolves with, or the error thrown out of it,
\* which rejects the promise whose executor called Papa.parse
processResults(results, today, lenient) ==
  IF Len(results.data) = 0
  THEN resolveWith([tasks |-> << >>, departmentStats |-> << >>, overallProgress |-> 0])
  ELSE IF \E i \in 1..Len(results.data) :
            parseDateThrows(results.fields, results.data[i], keyTable[results.fields].dateKey)
  THEN rejectWith(TrimTypeError)
  ELSE resolveWith(dashboardOf(tasksOf(results, today, lenient), today))

\* the promise settled with the outcome out
settleWith(out) ==
  IF out.failure # Undefined
  THEN /\ pc' = "rejected"
       /\ rejection' = out.failure
       /\ UNCHANGED <<tasks, departmentStats, overallProgress>>
  ELSE /\ pc' = "resolved"
       /\ rejection' = rejection
       /\ tasks' = out.value[1].tasks
       /\ departmentStats' = out.value[1].departmentStats
       /\ overallProgress' = out.value[1].overallProgress

\* Papa.parse calls complete(results) at the instant today
Complete(results, today, lenient) ==
  /\ pc = "pending"
  /\ headers' = results.fields
  /\ data' = results.data
  /\ now' = today
  /\ IF Len(results.data) = 0
     THEN UNCHANGED <<descKey, statusKey, dateKey>>
     ELSE /\ descKey' = Some(keyTable[results.fields].descKey)
          /\ statusKey' = Some(keyTable[results.fields].statusKey)
          /\ dateKey' = keyTable[results.fields].dateKey
  /\ settleWith(processResults(results, today, lenient))
  /\ UNCHANGED appVars

\* the parse completes with some table, at some instant, on some engine
ParseComplete ==
  /\ pc = "pending"
  /\ \E results \in ParseResults, today \in Clocks, lenient \in BOOLEAN : Complete(results, today, lenient)

Next ==
  \/ FetchFail
  \/ ParseFail
  \/ ParseComplete

Spec == Init /\ [][Next]_vars

-----------------------------------------------------------------------------
(* App: the component state and loadData.  An invocation of loadData runs   *)
(* up to its await in one step and, once fetchAndProcessData has settled,   *)
(* from the await to the end of the finally block in another.               *)

MaxLoads == 3

LoadErrorMessage == "Failed to load data from Google Sheets. Please ensure the link is public and valid."

AppClock == MakeInstant(2024, 1, 15, 12, 0)

\* the line of 23 headers whose date column is Deadline
ShortWideHeaders == <<"Task", "Status", "Deadline">> \o fillers(4, ColX)

\* the tables the sheet holds when App fetches it: two tables of one task,
\* and one whose only line has a cell more than the 23 headers and no date
AppTables ==
  { [fields |-> SummaryHeaders, data |-> << <<"Process PAYROLL for project staff", "Completed", "14-Jan-24">> >>],
    [fields |-> SummaryHeaders, data |-> << <<"Sales tender", "In Progress", "14-Jan-24">> >>],
    [fields |-> ShortWideHeaders, data |-> << wideRow("Sales tender", "", "", " 16-Jan-2024 ", ColX + 1) >>] }

\* what fetchAndProcessData can settle with: the outcome of a table, or the
\* rejection of a failed fetch or parse
Outcomes ==
  { processResults(results, AppClock, FALSE) : results \in AppTables }
  \cup { rejectWith(e) : e \in {"Failed to fetch data", "TypeError", "ParseError"} }

Fetching == [phase |-> "fetching", outcome |-> Undefined]

\* loadData up to the await, with the error of the previous invocation kept
startLoadKeepingError ==
  /\ loading' = TRUE
  /\ error' = error
  /\ loads' = Append(loads, Fetching)
  /\ UNCHANGED <<appData, settled>>

\* loadData up to the await: setLoading(true), setError(null), the call
startLoad ==
  /\ loading' = TRUE
  /\ error' = Undefined
  /\ loads' = Append(loads, Fetching)
  /\ UNCHANGED <<appData, settled>>

\* the effect of useEffect(..., []), run once after App has mounted
Mount ==
  /\ ~mounted
  /\ mounted' = TRUE
  /\ startLoad
  /\ UNCHANGED pipelineVars

\* disabled={loading}
refreshDisabled == loading

\* a click on Refresh Data that the button takes whether disabled or not
RefreshWhileLoading ==
  /\ mounted
  /\ Len(loads) < MaxLoads
  /\ startLoad
  /\ UNCHANGED <<mounted, pipelineVars>>

\* a click on Refresh Data: onClick={loadData}, on a button that is not disabled
Refresh ==
  /\ ~refreshDisabled
  /\ Len(loads) < MaxLoads
  /\ startLoad
  /\ UNCHANGED <<mounted, pipelineVars>>

\* loadData called while another invocation is awaiting, by a trigger other
\* than the mount effect and the button
ConcurrentTrigger ==
  /\ \E i \in 1..Len(loads) : loads[i].phase = "fetching"
  /\ Len(loads) < MaxLoads
  /\ startLoad
  /\ UNCHANGED <<mounted, pipelineVars>>

\* the result taken only from the invocation that started last
LoadResolvedIfLatest(i, out) ==
  /\ loads[i].phase = "fetching"
  /\ out.failure = Undefined
  /\ appData' = IF i = Len(loads) THEN out.value ELSE appData
  /\ loading' = FALSE
  /\ loads' = [loads EXCEPT ![i] = [phase |-> "resolved", outcome |-> Some(out)]]
  /\ settled' = Append(settled, i)
  /\ UNCHANGED <<error, mounted, pipelineVars>>

\* the await of invocation i returns: setData(result), then finally setLoading(false)
LoadResolved(i, out) ==
  /\ loads[i].phase = "fetching"
  /\ out.failure = Undefined
  /\ appData' = out.value
  /\ loading' = FALSE
  /\ loads' = [loads EXCEPT ![i] = [phase |-> "resolved", outcome |-> Some(out)]]
  /\ settled' = Append(settled, i)
  /\ UNCHANGED <<error, mounted, pipelineVars>>

\* the catch block also dropping the data loaded before
LoadRejectedClearingData(i, out) ==
  /\ loads[i].phase = "fetching"
  /\ out.failure # Undefined
  /\ error' = Some(LoadErrorMessage)
  /\ appData' = Undefined
  /\ loading' = FALSE
  /\ loads' = [loads EXCEPT ![i] = [phase |-> "rejected", outcome |-> Some(out)]]
  /\ settled' = Append(settled, i)
  /\ UNCHANGED <<mounted, pipelineVars>>

\* the await of invocation i throws: setError(...), then finally setLoading(false)
LoadRejected(i, out) ==
  /\ loads[i].phase = "fetching"
  /\ out.failure # Undefined
  /\ error' = Some(LoadErrorMessage)
  /\ loading' = FALSE
  /\ loads' = [loads EXCEPT ![i] = [phase |-> "rejected", outcome |-> Some(out)]]
  /\ settled' = Append(settled, i)
  /\ UNCHANGED <<appData, mounted, pipelineVars>>

Resolves == \E i \in 1..Len(loads), out \in Outcomes : LoadResolved(i, out)

Rejects == \E i \in 1..Len(loads), out \in Outcomes : LoadRejected(i, out)

AppNext ==
  \/ Mount
  \/ Refresh
  \/ Resolves
  \/ Rejects

AppSpec == Init /\ [][AppNext]_vars

\* the effect runs once App has mounted, and a fetch in flight settles
FairAppSpec == AppSpec /\ WF_vars(Mount) /\ WF_vars(Resolves) /\ WF_vars(Rejects)

RaceNext ==
  \/ Mount
  \/ Refresh
  \/ ConcurrentTrigger
  \/ Resolves
  \/ Rejects

RaceSpec == Init /\ [][RaceNext]_vars


-----------------------------------------------------------------------------
(* Properties of the resolved DashboardData *)

Resolved == pc = "resolved"

TaskIndexes == 1..Len(tasks)

StatIndexes == 1..Len(departmentStats)

\* the DepartmentType union
DepartmentType ==
  { "HR & Payroll", "Finance", "Procurement", "Inventory & Stores",
    "Equipment & Workshop", "Projects & Sales", "Setup & Admin", "General" }

\* the cell of row i under the resolved status column, << >> when the row has none
statusCell(i) == rowGet(headers, data[i], statusKey[1])

\* C1: every task of the resolved data has status Done or Pending, never In
\* Progress or the raw status text, and one of the eight declared departments.
C1_StatusAndDepartmentClosed ==
  Resolved =>
    \A i \in TaskIndexes :
      /\ tasks[i].status \in {"Done", "Pending"}
      /\ tasks[i].department \in DepartmentType

\* a row whose status cell reads In Progress became a Pending task
C1_Witness ==
  /\ Resolved
  /\ \E i \in TaskIndexes :
       /\ statusCell(i) = Some("In Progress")
       /\ tasks[i].status = "Pending"
       /\ tasks[i].department = "General"

\* the tasks filed under a department, and the Done ones among them
tasksIn(name) == { i \in TaskIndexes : tasks[i].department = name }

doneIn(name) == { i \in tasksIn(name) : tasks[i].status = "Done" }

doneTasks == { i \in TaskIndexes : tasks[i].status = "Done" }

\* p is the quotient done / total * 100 rounded to the nearest integer, a half
\* rounded up:  p <= 100 * done / total + 1/2 < p + 1
IsRoundedPercent(p, done, total) ==
  /\ p \in 0..100
  /\ 2 * p * total <= 200 * done + total
  /\ 200 * done + total < 2 * (p + 1) * total

\* C2: each percentage is the rounded share of Done tasks of its department
\* and overallProgress the rounded share of Done tasks of all tasks; both are
\* integers in 0..100, and no tasks at all give 0.
C2_PercentagesRounded ==
  Resolved =>
    /\ \A k \in StatIndexes :
         LET d == departmentStats[k]
         IN  /\ d.completedTasks = Cardinality(doneIn(d.name))
             /\ d.totalTasks = Cardinality(tasksIn(d.name))
             /\ IsRoundedPercent(d.percentage, d.completedTasks, d.totalTasks)
    /\ IF Len(tasks) = 0 THEN overallProgress = 0
       ELSE IsRoundedPercent(overallProgress, Cardinality(doneTasks), Len(tasks))

\* two of a department's three tasks are Done: 66.67 is rounded up to 67
C2_Witness ==
  /\ Resolved
  /\ \E k \in StatIndexes :
       /\ departmentStats[k].totalTasks = 3
       /\ departmentStats[k].completedTasks = 2
       /\ departmentStats[k].percentage = 67

\* the first instant of the calendar day that holds the clock reading
dayStart == (now \div MinutesPerDay) * MinutesPerDay

\* the tasks of a department that are overdue: not Done, dated, and dated
\* strictly before the start of today
overdueIn(name) ==
  { i \in tasksIn(name) :
      /\ tasks[i].status # "Done"
      /\ tasks[i].parsedDate # Undefined
      /\ tasks[i].parsedDate[1] < dayStart }

\* C3: overdueCount is the number of the department's tasks that are not
\* Done, have a parsedDate, and are dated strictly before the start of the
\* current day.
C3_OverdueCount ==
  Resolved =>
    \A k \in StatIndexes :
      departmentStats[k].overdueCount = Cardinality(overdueIn(departmentStats[k].name))

\* one department holds an overdue task next to a Done task of the past, a
\* task dated today and a task without a date, and counts only the first
C3_Witness ==
  /\ Resolved
  /\ \E k \in StatIndexes :
       LET name == departmentStats[k].name
       IN  /\ departmentStats[k].overdueCount = 1
           /\ \E i \in tasksIn(name) :
                /\ tasks[i].status = "Done"
                /\ tasks[i].parsedDate # Undefined
                /\ tasks[i].parsedDate[1] < dayStart
           /\ \E i \in tasksIn(name) :
                /\ tasks[i].status # "Done"
                /\ tasks[i].parsedDate # Undefined
                /\ tasks[i].parsedDate[1] >= dayStart
                /\ tasks[i].parsedDate[1] < dayStart + MinutesPerDay

\* the dates of a department's tasks that are not Done and lie after the clock
futureDatesIn(name) ==
  { tasks[i].parsedDate[1] :
      i \in { j \in tasksIn(name) :
                /\ tasks[j].status # "Done"
                /\ tasks[j].parsedDate # Undefined
                /\ tasks[j].parsedDate[1] > now } }

\* C4: nextDeadline is the least parsedDate of the department's tasks that
\* are not Done and dated strictly after the current moment, and is null
\* exactly when there is no such task.
C4_NextDeadlineEarliestFuture ==
  Resolved =>
    \A k \in StatIndexes :
      LET F  == futureDatesIn(departmentStats[k].name)
          nd == departmentStats[k].nextDeadline
      IN  /\ (nd = Undefined) <=> (F = {})
          /\ nd # Undefined => (nd[1] \in F /\ \A d \in F : nd[1] <= d)

\* a department whose later future task comes first in row order
C4_Witness ==
  /\ Resolved
  /\ \E k \in StatIndexes :
       LET name == departmentStats[k].name
           nd   == departmentStats[k].nextDeadline
       IN  /\ nd # Undefined
           /\ \E i, j \in tasksIn(name) :
                /\ i < j
                /\ tasks[i].status # "Done" /\ tasks[j].status # "Done"
                /\ tasks[i].parsedDate # Undefined /\ tasks[j].parsedDate # Undefined
                /\ tasks[j].parsedDate[1] > now
                /\ tasks[i].parsedDate[1] > tasks[j].parsedDate[1]
                /\ nd = tasks[j].parsedDate

\* C5: departmentStats has exactly one entry for each department with at
\* least one task and none for a department without tasks; totalTasks is the
\* number of tasks of the department; no data rows give empty tasks, empty
\* departmentStats and overallProgress 0.
C5_StatsForNonEmptyDepartments ==
  Resolved =>
    /\ \A name \in DepartmentType :
         Cardinality({ k \in StatIndexes : departmentStats[k].name = name })
           = (IF tasksIn(name) = {} THEN 0 ELSE 1)
    /\ \A k \in StatIndexes :
         /\ departmentStats[k].name \in DepartmentType
         /\ departmentStats[k].totalTasks = Cardinality(tasksIn(departmentStats[k].name))
    /\ Len(tasks) = Len(data)
    /\ Len(data) = 0 => (tasks = << >> /\ departmentStats = << >> /\ overallProgress = 0)

\* three rows fall into two departments: two entries, none for the six
\* departments without tasks
C5_Witness ==
  /\ Resolved
  /\ Len(tasks) = 3
  /\ Len(departmentStats) = 2
  /\ tasksIn("General") = {}


-----------------------------------------------------------------------------
(* Properties of column resolution *)

swapHeaders(hs, i, j) == [hs EXCEPT ![i] = hs[j], ![j] = hs[i]]

\* the positions of the headers other than the resolved date column
movablePositions(hs) == { i \in 1..Len(hs) : Some(hs[i]) # resolveDateKey(hs) }

\* Every permutation is a product of transpositions, and the header lines a
\* table may have are closed under them: the selection is the same under
\* every permutation of every line exactly when no exchange of two headers
\* of any line changes it.
selectionKeptUnderSwaps(hs, candidates) ==
  LET selected == findColumnKey(hs, candidates)
      movable  == movablePositions(hs)
  IN  selected # Undefined =>
        \A i, j \in movable : i < j => findColumnKey(swapHeaders(hs, i, j), candidates) = selected

orderIndependentTable ==
  [hs \in HeaderLines |->
     selectionKeptUnderSwaps(hs, DescCandidates) /\ selectionKeptUnderSwaps(hs, StatusCandidates)]

\* C6: when a synonym of the description role, or of the status role, matches
\* some header, findColumnKey selects the same header for that role however
\* the headers other than the date column are reordered.
C6_ResolutionOrderIndependent ==
  (Resolved /\ Len(data) > 0) => orderIndependentTable[headers]

\* the date column as the claim derives it from the header line
claimedDateKey(hs) ==
  IF Len(hs) > ColX /\ includes(normalize(hs[ColX + 1]), "edd") THEN Some(hs[ColX + 1])
  ELSE IF findColumnKey(hs, DateCandidates) # Undefined THEN findColumnKey(hs, DateCandidates)
  ELSE IF Len(hs) > ColX THEN Some(hs[ColX + 1])
  ELSE Undefined

claimedDateKeyTable == [hs \in HeaderLines |-> claimedDateKey(hs)]

\* C9: the date column is the header at index 23 when that header exists and
\* its normal form contains edd; otherwise the header found by the synonym
\* search; otherwise the header at index 23 when one exists; otherwise none.
C9_DateKeyResolution ==
  (Resolved /\ Len(data) > 0) => dateKey = claimedDateKeyTable[headers]

-----------------------------------------------------------------------------
(* Properties of the tasks *)

\* the departments, by position in the table, with a keyword that occurs in
\* the description without regard to case
mentionedDepartments(desc) ==
  { k \in 1..Len(DeptOrder) :
      \E w \in 1..Len(KEYWORDS[k]) : includes(toLowerCase(desc), KEYWORDS[k][w]) }

mentionTable == [d \in CellTexts |-> mentionedDepartments(d)]

\* the texts with both tender and warehouse and no keyword of HR & Payroll,
\* Finance or Procurement
TenderWarehouseTexts ==
  { d \in CellTexts :
      /\ includes(toLowerCase(d), "tender")
      /\ includes(toLowerCase(d), "warehouse")
      /\ mentionTable[d] \cap {1, 2, 3} = {} }

\* C7 as stated: a task whose description has both tender and warehouse, and
\* no keyword of the first three departments, is filed under Projects & Sales.
C7_TenderWinsOverWarehouse ==
  Resolved =>
    \A i \in TaskIndexes :
      tasks[i].description \in TenderWarehouseTexts => tasks[i].department = "Projects & Sales"

\* C7 amended: such a task is filed under Inventory & Stores, whose keyword
\* warehouse comes before tender of Projects & Sales in the table order.
C7_WarehouseWinsOverTender ==
  Resolved =>
    \A i \in TaskIndexes :
      tasks[i].description \in TenderWarehouseTexts => tasks[i].department = "Inventory & Stores"

C7_Witness ==
  /\ Resolved
  /\ \E i \in TaskIndexes :
       /\ tasks[i].description = "Tender for new warehouse racks"
       /\ tasks[i].department = "Inventory & Stores"

Least(S) == CHOOSE k \in S : \A m \in S : k <= m

\* C8: the department of a task is the first department of the table, in
\* declared order, with a keyword occurring in the description without regard
\* to case, and General exactly when no keyword of any department occurs.
C8_FirstDepartmentInTableOrder ==
  Resolved =>
    \A i \in TaskIndexes :
      LET M == mentionTable[tasks[i].description]
      IN  /\ (tasks[i].department = "General") <=> (M = {})
          /\ M # {} => tasks[i].department = DeptOrder[Least(M)]

\* a description that names payroll in capitals and project in small letters
\* goes to HR & Payroll, the earlier of the two departments
C8_Witness ==
  /\ Resolved
  /\ \E i \in TaskIndexes :
       /\ tasks[i].description = "Process PAYROLL for project staff"
       /\ mentionTable[tasks[i].description] = {1, 6}
       /\ tasks[i].department = "HR & Payroll"

\* the cell of row i under the resolved date column, "" when there is none
dateCell(i) == orElse(rowGet(headers, data[i], propertyKey(dateKey)), "")

\* the date text of row i when the fallback on the 24th value needs the row
\* to have more than minValues values
dateTextWith(i, minValues) ==
  IF Len(dateCell(i)) = 0 /\ Len(objectValues(headers, data[i])) > minValues
  THEN objectValues(headers, data[i])[ColX + 1]
  ELSE dateCell(i)

\* C10 as stated: the date text is the resolved date cell, and the row's 24th
\* value only when that cell is empty and the row has more than 24 values.
C10_FallbackAboveTwentyFourValues ==
  Resolved => \A i \in TaskIndexes : tasks[i].date = dateTextWith(i, ColX + 1)

\* C10 amended: the date text is the resolved date cell, and the row's 24th
\* value only when that cell is empty and the row has at least 24 values; a
\* row of 23 or fewer values with an empty date cell gets an empty date text.
C10_FallbackFromTwentyFourValues ==
  Resolved =>
    \A i \in TaskIndexes :
      /\ tasks[i].date = dateTextWith(i, ColX)
      /\ (Len(dateCell(i)) = 0 /\ Len(objectValues(headers, data[i])) <= ColX) => tasks[i].date = ""

\* a row of exactly 24 values with an empty date cell takes its 24th value
C10_Witness ==
  /\ Resolved
  /\ \E i \in TaskIndexes :
       /\ Len(objectValues(headers, data[i])) = ColX + 1
       /\ Len(dateCell(i)) = 0
       /\ Len(tasks[i].date) > 0
       /\ tasks[i].date = data[i][ColX + 1]

-----------------------------------------------------------------------------
(* Properties of the run as a whole *)

\* Papa.parse has called complete with a table
Completed == headers # << >>

\* the cell of row i under the resolved description column
descriptionCell(i) == rowGet(headers, data[i], descKey[1])

HasDigit(s) == \E k \in 1..Len(s) : IsDigit(CharAt(s, k))

-----------------------------------------------------------------------------
(* Properties of App *)

LoadIndexes == 1..Len(loads)

\* the step settles invocation i with a rejection
RejectedNow(i) == i \in LoadIndexes /\ loads[i].phase = "fetching" /\ loads'[i].phase = "rejected"

\* the step settles invocation i with a DashboardData
ResolvedNow(i) == i \in LoadIndexes /\ loads[i].phase = "fetching" /\ loads'[i].phase = "resolved"

\* the step starts an invocation of loadData
StartedNow == Len(loads') > Len(loads)

\* C12: when fetchAndProcessData rejects (failed fetch or parse error) the
\* invocation has no DashboardData, and the step leaves App with the error
\* message set, loading false and the Refresh button enabled; every step that
\* starts an invocation leaves the error cleared.
C12_FailureShownAndRetryable ==
  [][ /\ \A i \in LoadIndexes :
           RejectedNow(i) =>
             /\ loads'[i].outcome[1].value = Undefined
             /\ error' = Some(LoadErrorMessage)
             /\ loading' = FALSE
             /\ ~refreshDisabled'
      /\ StartedNow => error' = Undefined ]_vars

\* a failed fetch was followed by a refresh, which cleared the error
C12_Witness ==
  /\ Len(loads) = 2
  /\ loads[1].phase = "rejected"
  /\ loads[1].outcome[1].failure = Some("Failed to fetch data")
  /\ loads[2].phase = "fetching"
  /\ error = Undefined
  /\ loading

InFlight == { i \in LoadIndexes : loads[i].phase = "fetching" }

\* the invocation that resolved last among the first k that settled, 0 when none did
RECURSIVE lastResolvedIn(_)
lastResolvedIn(k) ==
  IF k = 0 THEN 0
  ELSE IF loads[settled[k]].phase = "resolved" THEN settled[k]
  ELSE lastResolvedIn(k - 1)

\* the DashboardData of the invocation that completed last with one, null when none has
lastCompletedData ==
  IF lastResolvedIn(Len(settled)) = 0 THEN Undefined
  ELSE loads[lastResolvedIn(Len(settled))].outcome[1].value

\* C13 as stated: a refresh is never held back by an invocation in flight,
\* and the data App holds is exactly the result of the invocation that
\* completed last, whatever the order the invocations started in.
C13_UnguardedLastCompletionWins ==
  /\ InFlight # {} => ~refreshDisabled
  /\ appData = lastCompletedData

\* C13 amended: loadData itself has no guard, so invocations that overlap
\* each settle on their own, and the data App holds is exactly the result of
\* the invocation that completed last with a DashboardData, not of the one
\* that started last.
C13_LastCompletionWins ==
  /\ \A i \in LoadIndexes : loads[i].phase # "fetching" <=> \E k \in 1..Len(settled) : settled[k] = i
  /\ appData = lastCompletedData

\* two invocations overlapped, the second resolved first, and App holds the
\* data of the first, which differs from the data of the second
C13_Witness ==
  /\ Len(loads) = 2
  /\ settled = <<2, 1>>
  /\ loads[1].phase = "resolved"
  /\ loads[2].phase = "resolved"
  /\ loads[1].outcome # loads[2].outcome
  /\ appData = loads[1].outcome[1].value

-----------------------------------------------------------------------------
(* Properties of date parsing *)

\* the formats under which the trimmed text is a valid calendar date
validFormats(text, today) ==
  { k \in 1..Len(formats) : parse(trim(text), formats[k], today) # Undefined }

\* the dates the chain of C14 allows for a date text: none for an empty or
\* blank text, the date of the first format that yields one, and otherwise
\* what new Date makes of the text on either kind of engine
chainDates(text, today) ==
  IF Len(trim(text)) = 0 THEN {Undefined}
  ELSE IF validFormats(text, today) # {}
  THEN {parse(trim(text), formats[Least(validFormats(text, today))], today)}
  ELSE {jsDate(trim(text), TRUE), jsDate(trim(text), FALSE)}

chainTable == [text \in CellTexts |-> [today \in Clocks |-> chainDates(text, today)]]

C15_OneInvocationInFlight ==
  /\ [](Cardinality(InFlight) <= 1)
  /\ [](InFlight # {} => loading)
  /\ [](mounted /\ loading => InFlight # {})
  /\ [](loading => refreshDisabled)
  /\ (loading ~> ~loading)

\* a load that resolved and a refresh that failed are over, and a second
\* refresh is the one invocation in flight
C15_Witness ==
  /\ Len(loads) = 3
  /\ loads[1].phase = "resolved"
  /\ loads[2].phase = "rejected"
  /\ InFlight = {3}
  /\ loading

\* C16: a step in which an invocation fails leaves data as it was, and data
\* changes only in a step in which an invocation resolves, to that result;
\* so data always is the result of the last load that resolved, and after a
\* failure it is shown together with the error.
C16_FailureKeepsData ==
  /\ [][ /\ (\E i \in LoadIndexes : RejectedNow(i)) => appData' = appData
         /\ appData' # appData => \E i \in LoadIndexes : ResolvedNow(i) /\ appData' = loads'[i].outcome[1].value
       ]_vars
  /\ [](appData = lastCompletedData)
  /\ []((settled # << >> /\ loads[settled[Len(settled)]].phase = "rejected" /\ InFlight = {})
          => (error # Undefined /\ ~loading))

\* a load resolved, two refreshes failed, and App still holds the data of
\* the load together with the error
C16_Witness ==
  /\ Len(loads) = 3
  /\ loads[1].phase = "resolved"
  /\ loads[2].phase = "rejected"
  /\ loads[3].phase = "rejected"
  /\ appData = loads[1].outcome[1].value
  /\ appData # Undefined
  /\ error # Undefined
  /\ ~loading

====
